---- MODULE Spec2Model ----
(***************************************************************************)
(* Model of src/src/App.tsx: the image store of the App component and the  *)
(* upload orchestration around it (processImage, handleImageUpload,        *)
(* removeImage, handleReset).                                              *)
(*                                                                         *)
(* One action is one run of a handler or callback up to its next           *)
(* suspension point, as JavaScript's single-threaded event loop runs it.   *)
(***************************************************************************)
EXTENDS Integers, Sequences, FiniteSets, TLC

(* ------------------------------ bounds -------------------------------- *)

\* Total number of files submitted over a run, all batches together.
MaxItems == 2

(* ------------------------------ values -------------------------------- *)

\* JavaScript's null; a field missing from a response (undefined) is modelled
\* as Null too: the code only ever tests such fields for truthiness.
Null == "null"

\* The strings Math.random().toString(36).substring(7) can return. The call
\* keeps no record of what it returned before, so the same string can come
\* back; "" is what it returns for a value with a short base-36 expansion.
Ids == {"", "k3x9q"}

\* Labels and messages the service can send.
Labels == {"cat"}
ServiceMessages == {"blurry image"}

FallbackMessage == "Failed to process image"
ConnectMessage == "Error connecting to the model server"

\* What one POST to /predict can come to: the body of a response, or a throw
\* (network failure, non-2xx status).
Responses ==
    [kind : {"response"}, success : BOOLEAN,
     prediction : Labels \cup {Null},
     error : ServiceMessages \cup {"", Null}]
    \cup {[kind |-> "throw"]}

\* URL.createObjectURL(file) and the data URI FileReader produces for the
\* file of the item with key k.
BlobURL(k) == "blob:" \o ToString(k)
DataURI(k) == "data:" \o ToString(k)

\* The id processImage draws for the file of the item with key k: a second
\* draw, made apart from the placeholder's. handleImageUpload never reads it,
\* so the model keeps which draw it is, not the string it gave.
PipeId(k) == "pipe:" \o ToString(k)

(* ------------------------------- state -------------------------------- *)

VARIABLES
    images,     \* the images state of App: a sequence of ImageResult
    batches,    \* the handleImageUpload calls that passed line 69, in order
    nextKey     \* ghost: the identity the next created item object gets

vars == <<images, batches, nextKey>>

\* An ImageResult. key is a ghost field: the identity of the item (the file it
\* was created for); the code never reads it.
ImageResult(k, id, image, prediction, error, isLoading) ==
    [key |-> k, id |-> id, image |-> image, prediction |-> prediction,
     error |-> error, isLoading |-> isLoading]

\* JavaScript's truthiness of a string-or-null value.
Truthy(v) == v # Null /\ v # ""

\* Array.prototype.findIndex(img => img.id === id), 1-based; 0 for -1.
FindIndex(s, id) ==
    IF \E i \in 1..Len(s) : s[i].id = id
    THEN CHOOSE i \in 1..Len(s) :
             /\ s[i].id = id
             /\ \A j \in 1..(i - 1) : s[j].id # id
    ELSE 0

(* ---------------------------- processImage ---------------------------- *)

\* processImage with line 47 passing response.data.error on as it is, without
\* the fallback message.
ProcessResultNoFallback(k, id, base64Image, resp) ==
    IF resp.kind = "throw"
    THEN ImageResult(k, id, base64Image, Null, ConnectMessage, FALSE)
    ELSE IF resp.success
    THEN ImageResult(k, id, base64Image, resp.prediction, Null, FALSE)
    ELSE ImageResult(k, id, base64Image, Null, resp.error, FALSE)

\* processImage with the catch block giving the message of the else branch.
ProcessResultCatchAsService(k, id, base64Image, resp) ==
    IF resp.kind = "throw"
    THEN ImageResult(k, id, base64Image, Null, FallbackMessage, FALSE)
    ELSE IF resp.success
    THEN ImageResult(k, id, base64Image, resp.prediction, Null, FALSE)
    ELSE ImageResult(k, id, base64Image, Null,
                     IF Truthy(resp.error) THEN resp.error ELSE FallbackMessage,
                     FALSE)

\* The value processImage resolves with, from the id it drew, the result of
\* the file read and what the POST came to.
ProcessResult(k, id, base64Image, resp) ==
    IF resp.kind = "throw"
    THEN ImageResult(k, id, base64Image, Null, ConnectMessage, FALSE)
    ELSE IF resp.success
    THEN ImageResult(k, id, base64Image, resp.prediction, Null, FALSE)
    ELSE ImageResult(k, id, base64Image, Null,
                     IF Truthy(resp.error) THEN resp.error ELSE FallbackMessage,
                     FALSE)

\* A pipeline right after processImage(file) returned its promise: the reader
\* is reading, the id is drawn. result is what the promise has resolved with:
\* <<>> while it is pending, <<r>> once it resolved with r. requests counts
\* the calls of axios.post the pipeline has made.
NewPipe(k) ==
    [key |-> k, pc |-> "reading", id |-> PipeId(k), base64Image |-> Null,
     requests |-> 0, result |-> <<>>]

\* reader.onloadend up to the await of axios.post: the read ended, with the
\* data URI or (the read failed) with reader.result null; the request is sent.
ReadEnd(b, i, ok) ==
    /\ b \in 1..Len(batches)
    /\ i \in 1..Len(batches[b].pipes)
    /\ batches[b].pipes[i].pc = "reading"
    /\ LET p == batches[b].pipes[i]
       IN  batches' = [batches EXCEPT ![b].pipes[i] =
               [p EXCEPT !.pc = "posting",
                         !.base64Image = IF ok THEN DataURI(p.key) ELSE Null,
                         !.requests = @ + 1]]
    /\ UNCHANGED <<images, nextKey>>

\* Respond with a catch block that posts once more before it gives up.
RespondRetrying(b, i, resp) ==
    /\ b \in 1..Len(batches)
    /\ i \in 1..Len(batches[b].pipes)
    /\ batches[b].pipes[i].pc = "posting"
    /\ LET p == batches[b].pipes[i]
       IN  batches' = [batches EXCEPT ![b].pipes[i] =
               IF resp.kind = "throw" /\ p.requests = 1
               THEN [p EXCEPT !.requests = @ + 1]
               ELSE [p EXCEPT !.pc = "resolved",
                              !.result = <<ProcessResult(p.key, p.id,
                                                    p.base64Image, resp)>>]]
    /\ UNCHANGED <<images, nextKey>>

\* The rest of reader.onloadend: the POST came to resp; the promise resolves.
Respond(b, i, resp) ==
    /\ b \in 1..Len(batches)
    /\ i \in 1..Len(batches[b].pipes)
    /\ batches[b].pipes[i].pc = "posting"
    /\ LET p == batches[b].pipes[i]
       IN  batches' = [batches EXCEPT ![b].pipes[i] =
               [p EXCEPT !.pc = "resolved",
                         !.result = <<ProcessResult(p.key, p.id,
                                                    p.base64Image, resp)>>]]
    /\ UNCHANGED <<images, nextKey>>

(* -------------------------- handleImageUpload ------------------------- *)

\* files.map(file => ({...})): the placeholders of a batch of n files, the
\* i-th with id ids[i].
NewImages(n, ids) ==
    [i \in 1..n |->
        ImageResult(nextKey + i - 1, ids[i], BlobURL(nextKey + i - 1),
                    Null, Null, TRUE)]

\* handleImageUpload with line 80 putting the placeholders in front:
\* [...newImages, ...prev].
HandleImageUploadInFront(n, ids) ==
    IF n = 0
    THEN UNCHANGED vars
    ELSE /\ nextKey + n - 1 <= MaxItems
         /\ images' = NewImages(n, ids) \o images
         /\ batches' = Append(batches,
                [newImages |-> NewImages(n, ids),
                 pipes |-> [i \in 1..n |-> NewPipe(nextKey + i - 1)],
                 pc |-> "awaiting"])
         /\ nextKey' = nextKey + n

\* handleImageUpload up to its await: n files were chosen; ids are the ids
\* drawn for the placeholders. The guard on nextKey bounds the model.
HandleImageUpload(n, ids) ==
    IF n = 0
    THEN UNCHANGED vars
    ELSE /\ nextKey + n - 1 <= MaxItems
         /\ images' = images \o NewImages(n, ids)
         /\ batches' = Append(batches,
                [newImages |-> NewImages(n, ids),
                 pipes |-> [i \in 1..n |-> NewPipe(nextKey + i - 1)],
                 pc |-> "awaiting"])
         /\ nextKey' = nextKey + n

\* Promise.all(files.map(processImage)) has resolved: every pipeline has.
AllResolved(b) ==
    \A i \in 1..Len(batches[b].pipes) : batches[b].pipes[i].pc = "resolved"

\* ApplyResult without isLoading: false at line 95.
ApplyResultStillLoading(prev, updatedImages, newImage, result) ==
    LET imageIndex == FindIndex(prev, newImage.id)
    IN  IF imageIndex # 0
        THEN [updatedImages EXCEPT ![imageIndex] =
                 [@ EXCEPT !.prediction = result.prediction,
                           !.error = result.error]]
        ELSE updatedImages

\* ApplyResult that stores the result itself in place of the item.
ApplyResultReplacesItem(prev, updatedImages, newImage, result) ==
    LET imageIndex == FindIndex(prev, newImage.id)
    IN  IF imageIndex # 0
        THEN [updatedImages EXCEPT ![imageIndex] = result]
        ELSE updatedImages

\* One round of results.forEach((result, index) => ...), on the copy.
ApplyResult(prev, updatedImages, newImage, result) ==
    LET imageIndex == FindIndex(prev, newImage.id)
    IN  IF imageIndex # 0
        THEN [updatedImages EXCEPT ![imageIndex] =
                 [@ EXCEPT !.prediction = result.prediction,
                           !.error = result.error,
                           !.isLoading = FALSE]]
        ELSE updatedImages

\* The updater of the second setImages: results applied in index order.
RECURSIVE ForEachResult(_, _, _, _, _)
ForEachResult(prev, updatedImages, newImages, pipes, index) ==
    IF index > Len(pipes)
    THEN updatedImages
    ELSE ForEachResult(prev,
             ApplyResult(prev, updatedImages, newImages[index],
                         pipes[index].result[1]),
             newImages, pipes, index + 1)

Reconciled(prev, batch) ==
    ForEachResult(prev, prev, batch.newImages, batch.pipes, 1)

\* Reconcile without the barrier of Promise.all: the continuation runs as
\* soon as one pipeline has resolved and applies the results there are.
ReconcileWithoutBarrier(b) ==
    /\ b \in 1..Len(batches)
    /\ batches[b].pc = "awaiting"
    /\ \E i \in 1..Len(batches[b].pipes) : batches[b].pipes[i].pc = "resolved"
    /\ LET batch == batches[b]
           isResolved(i) == batch.pipes[i].pc = "resolved"
           resolved == SelectSeq([i \in 1..Len(batch.pipes) |-> i], isResolved)
       IN  images' = ForEachResult(images, images,
                         [j \in 1..Len(resolved) |-> batch.newImages[resolved[j]]],
                         [j \in 1..Len(resolved) |-> batch.pipes[resolved[j]]], 1)
    /\ batches' = [batches EXCEPT ![b].pc = "done", ![b].pipes = <<>>]
    /\ UNCHANGED nextKey

\* handleImageUpload after its await. The call returns: its pipelines and
\* results are garbage from here on, and the model drops them.
Reconcile(b) ==
    /\ b \in 1..Len(batches)
    /\ batches[b].pc = "awaiting"
    /\ AllResolved(b)
    /\ images' = Reconciled(images, batches[b])
    /\ batches' = [batches EXCEPT ![b].pc = "done", ![b].pipes = <<>>]
    /\ UNCHANGED nextKey

(* ---------------------- removeImage, handleReset ---------------------- *)

Keep(s, id) ==
    LET keep(img) == img.id # id IN SelectSeq(s, keep)

RemoveImage(id) ==
    /\ images' = Keep(images, id)
    /\ UNCHANGED <<batches, nextKey>>

\* fileInputRef.current.value = '' resets the file picker, which is not part
\* of the state modelled.
HandleReset ==
    /\ images' = <<>>
    /\ UNCHANGED <<batches, nextKey>>

(* --------------------------- specification ---------------------------- *)

Init ==
    /\ images = <<>>
    /\ batches = <<>>
    /\ nextKey = 1

Upload ==
    \E n \in 0..MaxItems :
        \E ids \in [1..n -> Ids] : HandleImageUpload(n, ids)

ReadDone ==
    \E b \in 1..Len(batches) : \E i \in 1..Len(batches[b].pipes) :
        \E ok \in BOOLEAN : ReadEnd(b, i, ok)

PostDone ==
    \E b \in 1..Len(batches) : \E i \in 1..Len(batches[b].pipes) :
        \E resp \in Responses : Respond(b, i, resp)

ReconcileBatch == \E b \in 1..Len(batches) : Reconcile(b)

Remove == \E id \in Ids : RemoveImage(id)

Next ==
    \/ Upload
    \/ ReadDone
    \/ PostDone
    \/ ReconcileBatch
    \/ Remove
    \/ HandleReset

Spec == Init /\ [][Next]_vars

\* Every file read ends, in success or in failure (onloadend fires on both),
\* and every request is answered or throws: a pipeline that can take its
\* next step takes it. The continuation of handleImageUpload runs once
\* Promise.all has resolved.
ReadCompletes(b, i) == WF_vars(\E ok \in BOOLEAN : ReadEnd(b, i, ok))

RequestCompletes(b, i) == WF_vars(\E resp \in Responses : Respond(b, i, resp))

ContinuationRuns(b) == WF_vars(Reconcile(b))

Fairness ==
    \A b \in 1..MaxItems :
        /\ ContinuationRuns(b)
        /\ \A i \in 1..MaxItems : ReadCompletes(b, i) /\ RequestCompletes(b, i)

FairSpec == Init /\ [][Next]_vars /\ Fairness

(* ------------------------- notions the claims use --------------------- *)

\* The places of the store holding the item with key k (at most one).
Places(s, k) == {j \in 1..Len(s) : s[j].key = k}

InStore(s, k) == Places(s, k) # {}

\* The item with key k, for a key in the store.
ItemOf(s, k) == s[CHOOSE j \in Places(s, k) : TRUE]

\* The keys of the placeholders of batch b.
BatchKeys(b) ==
    {batches[b].newImages[i].key : i \in 1..Len(batches[b].newImages)}

\* The item with key k holds the outcome r and is no longer loading.
HoldsOutcome(s, k, r) ==
    /\ ItemOf(s, k).prediction = r.prediction
    /\ ItemOf(s, k).error = r.error
    /\ ~ItemOf(s, k).isLoading

\* Every item of batch b still in the store s holds the outcome of the
\* pipeline started for its own file.
OwnOutcomes(b, s) ==
    \A i \in 1..Len(batches[b].pipes) :
        InStore(s, batches[b].newImages[i].key) =>
            HoldsOutcome(s, batches[b].newImages[i].key,
                         batches[b].pipes[i].result[1])

\* The items of s that are not of batch b are the same, at the same places,
\* in t.
OthersUntouched(b, s, t) ==
    /\ Len(t) = Len(s)
    /\ \A j \in 1..Len(s) : s[j].key \notin BatchKeys(b) => t[j] = s[j]

\* This step is the reconciliation of batch b.
Reconciles(b) ==
    /\ batches[b].pc = "awaiting"
    /\ Len(batches') = Len(batches)
    /\ batches'[b].pc = "done"
    /\ Reconcile(b)

\* This step is the one in which pipeline i of batch b resolves.
Resolves(b, i) ==
    /\ batches[b].pipes[i].pc = "posting"
    /\ Len(batches') = Len(batches)
    /\ batches'[b].pipes[i].pc = "resolved"

\* The responses the POST of pipeline i of batch b can have come to in this
\* step, in which the pipeline resolves.
RespondedWith(b, i) ==
    {resp \in Responses :
        batches'[b].pipes[i].result
            = <<ProcessResult(batches[b].pipes[i].key, batches[b].pipes[i].id,
                              batches[b].pipes[i].base64Image, resp)>>}

(* -------------------------------- C1 ---------------------------------- *)

\* C1: once a pipeline has resolved, the reconciliation of its item is not
\* held back by a sibling pipeline: whenever a pipeline has resolved and its
\* item is still in the store and loading, the step that reconciles it can be
\* taken, whatever the state of the other pipelines of the batch.
C1_ResolvedItemNotHeldBySibling ==
    \A b \in 1..Len(batches) : \A i \in 1..Len(batches[b].pipes) :
        ( /\ batches[b].pipes[i].pc = "resolved"
          /\ InStore(images, batches[b].newImages[i].key)
          /\ ItemOf(images, batches[b].newImages[i].key).isLoading )
        => ENABLED Reconcile(b)

(* -------------------------------- C2 ---------------------------------- *)

\* C2: whatever the order in which the pipelines of a batch resolved, its
\* reconciliation gives every item of the batch still in the store the
\* outcome of the pipeline started for its own file, and writes onto no
\* other item.
C2_OutcomeLandsOnOwnItem ==
    [][\A b \in 1..Len(batches) :
          Reconciles(b) =>
              /\ OwnOutcomes(b, images')
              /\ OthersUntouched(b, images, images')]_vars

(* -------------------------------- C3 ---------------------------------- *)

\* An item of batch b is gone from the store while the pipelines of the batch
\* are in flight.
RemovedInFlight(b) ==
    /\ batches[b].pc = "awaiting"
    /\ \E k \in BatchKeys(b) : ~InStore(images, k)

\* C3: when an item was removed while its pipeline was in flight, the
\* reconciliation of its batch adds no item (no id appears in the store that
\* was not there), changes no item of another batch, and gives every
\* surviving item of the batch its own outcome.
C3_RemovedInFlightStaysRemoved ==
    [][\A b \in 1..Len(batches) :
          (RemovedInFlight(b) /\ Reconciles(b)) =>
              /\ {images'[j].id : j \in 1..Len(images')}
                     \subseteq {images[j].id : j \in 1..Len(images)}
              /\ OthersUntouched(b, images, images')
              /\ OwnOutcomes(b, images')]_vars

\* C3's case: an item is gone from the store while its batch was in flight,
\* and every pipeline of the batch has resolved: the batch is reconciled next.
C3_Case ==
    \E b \in 1..Len(batches) : RemovedInFlight(b) /\ AllResolved(b)

(* -------------------------------- C4 ---------------------------------- *)

HasValue(v) == v # Null

ExactlyOne(r) == HasValue(r.prediction) # HasValue(r.error)

SuccessWithoutLabel(resp) ==
    resp.kind = "response" /\ resp.success /\ ~HasValue(resp.prediction)

C5_LoadingEndsExactlyOnce ==
    [][ /\ \A j \in 1..Len(images) :
             ( ~images[j].isLoading /\ InStore(images', images[j].key) )
             => ~ItemOf(images', images[j].key).isLoading
        /\ \A b \in 1..Len(batches) :
             Reconciles(b) =>
                 \A k \in BatchKeys(b) :
                     InStore(images', k) =>
                         /\ ItemOf(images, k).isLoading
                         /\ ~ItemOf(images', k).isLoading ]_vars

(* -------------------------------- C6 ---------------------------------- *)

\* C6: a batch of n files appends n items at the end of the store in one
\* step, in file order, each loading with no prediction and no error, the
\* items already there unchanged, and starts n pipelines; n = 0 changes
\* nothing and starts none.
C6_UploadAppendsPlaceholders ==
    [][\A n \in 0..MaxItems : \A ids \in [1..n -> Ids] :
          HandleImageUpload(n, ids) =>
              /\ Len(images') = Len(images) + n
              /\ SubSeq(images', 1, Len(images)) = images
              /\ \A i \in 1..n :
                     LET img == images'[Len(images) + i]
                     IN  /\ img.key = nextKey + i - 1
                         /\ img.id = ids[i]
                         /\ img.isLoading
                         /\ img.prediction = Null
                         /\ img.error = Null
              /\ IF n = 0
                 THEN batches' = batches
                 ELSE /\ Len(batches') = Len(batches) + 1
                      /\ SubSeq(batches', 1, Len(batches)) = batches
                      /\ Len(batches'[Len(batches')].pipes) = n
                      /\ \A i \in 1..n :
                             batches'[Len(batches')].pipes[i].pc = "reading"
          ]_vars

\* C6's case: a batch was appended behind an item that was already there and
\* had its result, and its pipeline has not moved yet.
C6_Case ==
    /\ Len(images) = 2
    /\ ~images[1].isLoading /\ images[1].key = 1
    /\ images[2].isLoading /\ images[2].key = 2
    /\ Len(batches) = 2
    /\ Len(batches[2].pipes) = 1
    /\ batches[2].pipes[1].pc = "reading"

(* -------------------------------- C7 ---------------------------------- *)

\* The pipeline that resolved with r failed: its file could not be read, or
\* its request threw, or the service reported an error.
PipelineFailed(r) == r.image = Null \/ HasValue(r.error)

\* The failed terminal state of an item.
FailedState(img) ==
    ~img.isLoading /\ HasValue(img.error) /\ ~HasValue(img.prediction)

\* C7: when a pipeline of a batch failed, the reconciliation of the batch
\* leaves its item (if still in the store) in the failed state, gives every
\* sibling still in the store its own outcome, and changes no item of
\* another batch.
C7_FailureStaysWithItsItem ==
    [][\A b \in 1..Len(batches) :
          Reconciles(b) =>
              \A i \in 1..Len(batches[b].pipes) :
                  PipelineFailed(batches[b].pipes[i].result[1]) =>
                      /\ InStore(images', batches[b].newImages[i].key) =>
                             FailedState(ItemOf(images',
                                                batches[b].newImages[i].key))
                      /\ OwnOutcomes(b, images')
                      /\ OthersUntouched(b, images, images')]_vars

(* -------------------------------- C8 ---------------------------------- *)

C9_UnreadableFileFails ==
    [][\A b \in 1..Len(batches) :
          Reconciles(b) =>
              \A i \in 1..Len(batches[b].pipes) :
                  ( /\ batches[b].pipes[i].result[1].image = Null
                    /\ InStore(images', batches[b].newImages[i].key) )
                  => FailedState(ItemOf(images',
                                        batches[b].newImages[i].key))]_vars

(* -------------------------------- C10 --------------------------------- *)

\* The placeholders created so far, as <<batch, index>>.
Created ==
    {<<b, i>> : b \in 1..Len(batches), i \in 1..MaxItems} \cap
    {x \in (1..Len(batches)) \X (1..MaxItems) :
         x[2] <= Len(batches[x[1]].newImages)}

\* C10: no two items in the store have the same id, and no two placeholders
\* ever created were given the same id.
C10_IdsUniqueAndNeverReused ==
    /\ \A j1, j2 \in 1..Len(images) :
           images[j1].id = images[j2].id => j1 = j2
    /\ \A x, y \in Created :
           batches[x[1]].newImages[x[2]].id = batches[y[1]].newImages[y[2]].id
               => x = y

(* -------------------------------- C11 --------------------------------- *)

\* Every item of batch b is gone from the store while the pipelines of the
\* batch are in flight, as after a clear.
ClearedInFlight(b) ==
    /\ batches[b].pc = "awaiting"
    /\ \A k \in BatchKeys(b) : ~InStore(images, k)

\* C11: handleReset leaves the store empty whatever it held, and the
\* reconciliation of a batch that was cleared in flight changes nothing in
\* the store: it stays empty, or keeps the items of the batches submitted
\* since as they are.
C11_ClearedStaysCleared ==
    [][ /\ HandleReset => images' = <<>>
        /\ \A b \in 1..Len(batches) :
               (ClearedInFlight(b) /\ Reconciles(b)) => images' = images
      ]_vars

(* -------------------------------- C12 --------------------------------- *)

\* s is t with the item at place j taken out.
WithoutPlace(t, j) == SubSeq(t, 1, j - 1) \o SubSeq(t, j + 1, Len(t))

\* C12: the store is in insertion order; a removeImage(id) step takes out
\* the one item with that id and leaves the others as they are and in their
\* order, or changes nothing when no item has that id; every other step that
\* adds items adds them at the end.
C12_RemoveDeletesOnlyTheItem ==
    [][ /\ \A j1, j2 \in 1..Len(images') :
               j1 < j2 => images'[j1].key < images'[j2].key
        /\ \A id \in Ids :
               RemoveImage(id) =>
                   IF \E j \in 1..Len(images) : images[j].id = id
                   THEN \E j \in 1..Len(images) :
                            /\ images[j].id = id
                            /\ images' = WithoutPlace(images, j)
                   ELSE images' = images
        /\ Len(images') > Len(images) =>
               SubSeq(images', 1, Len(images)) = images ]_vars

(* -------------------------------- C13 --------------------------------- *)

\* Item k is in the store and shows its loading state.
Loading(k) == InStore(images, k) /\ ItemOf(images, k).isLoading

\* C13: when every read and every request completes, an item that is
\* loading is eventually no longer loading, or is removed or cleared: no
\* item stays loading forever.
C13_NoItemLoadsForever ==
    \A k \in 1..MaxItems : Loading(k) ~> ~Loading(k)

(* -------------------------------- C14 --------------------------------- *)

\* C14: an item that has left its loading state is never written again:
\* whatever step is taken, by its own batch or by another, the item is
\* afterwards either gone from the store (removed or cleared) or exactly as
\* it was.
C14_TerminalItemNeverChanges ==
    [][ \A j \in 1..Len(images) :
            (~images[j].isLoading /\ InStore(images', images[j].key))
                => ItemOf(images', images[j].key) = images[j] ]_vars

(* -------------------------------- C15 --------------------------------- *)

\* C15: a reconciliation works on the store as it is at that moment: the
\* same items are in the store afterwards, in the same places (none that a
\* later batch appended is dropped, none that was removed comes back), and
\* an item to which another batch has already applied its result keeps that
\* result.
C15_NoLostUpdate ==
    [][ \A b \in 1..Len(batches) :
            Reconciles(b) =>
                /\ Len(images') = Len(images)
                /\ \A j \in 1..Len(images) :
                       /\ images'[j].key = images[j].key
                       /\ (images[j].key \notin BatchKeys(b)
                              /\ ~images[j].isLoading)
                           => images'[j] = images[j] ]_vars

(* -------------------------------- C16 --------------------------------- *)

\* C16: when a batch is reconciled, each of its items that is still in the
\* store and whose file was encoded holds from then on the data URI that
\* its pipeline resolved with, not the object URL of its placeholder.
C16_ReconciledItemHoldsDataURI ==
    [][ \A b \in 1..Len(batches) :
            Reconciles(b) =>
                \A i \in 1..Len(batches[b].pipes) :
                    LET k == batches[b].newImages[i].key
                        r == batches[b].pipes[i].result[1]
                    IN  (InStore(images', k) /\ r.image # Null)
                            => ItemOf(images', k).image = r.image ]_vars

(* -------------------------------- C17 --------------------------------- *)

\* C17: in every reachable state an item that is loading has neither a
\* prediction nor an error.
C17_LoadingHasNoResult ==
    \A j \in 1..Len(images) :
        images[j].isLoading =>
            (images[j].prediction = Null /\ images[j].error = Null)

\* A loading item stands in the store next to an item that a reconciliation
\* has given a prediction or an error.
C17_Case ==
    \E j1, j2 \in 1..Len(images) :
        /\ images[j1].isLoading
        /\ ~images[j2].isLoading
        /\ HasValue(images[j2].prediction) \/ HasValue(images[j2].error)

(* -------------------------------- C18 --------------------------------- *)

\* C18: a pipeline has sent no request while its file is being read, and
\* exactly one from the end of the read on, whatever the request came to:
\* the request follows the read and is never sent a second time.
C18_OneRequestAfterTheRead ==
    \A b \in 1..Len(batches) : \A i \in 1..Len(batches[b].pipes) :
        LET p == batches[b].pipes[i]
        IN  /\ p.pc = "reading" => p.requests = 0
            /\ p.pc \in {"posting", "resolved"} => p.requests = 1

\* A pipeline whose request failed has resolved with the connection error.
C18_Case ==
    \E b \in 1..Len(batches) : \E i \in 1..Len(batches[b].pipes) :
        LET p == batches[b].pipes[i]
        IN  /\ p.pc = "resolved"
            /\ p.result[1].error = ConnectMessage

(* -------------------------------- C19 --------------------------------- *)

\* The ids of the placeholders of batch b.
BatchIds(b) ==
    {batches[b].newImages[i].id : i \in 1..Len(batches[b].newImages)}

\* C19: a reconciliation keeps the number of items in the store, the id of
\* the item at each place and the order of the items, and leaves every item
\* whose id is not an id of a placeholder of the batch exactly as it was.
C19_ReconcileKeepsShape ==
    [][ \A b \in 1..Len(batches) :
            Reconciles(b) =>
                /\ Len(images') = Len(images)
                /\ \A j \in 1..Len(images) :
                       /\ images'[j].id = images[j].id
                       /\ images'[j].key = images[j].key
                       /\ images[j].id \notin BatchIds(b)
                              => images'[j] = images[j] ]_vars

\* A batch has been reconciled onto its item while an older item with
\* another id, of a batch still in flight, stood before it in the store.
C19_Case ==
    \E b1, b2 \in 1..Len(batches) :
        /\ b1 < b2
        /\ batches[b1].pc = "awaiting"
        /\ batches[b2].pc = "done"
        /\ \E j1, j2 \in 1..Len(images) :
               /\ j1 < j2
               /\ images[j1].key \in BatchKeys(b1)
               /\ images[j2].key \in BatchKeys(b2)
               /\ images[j1].id # images[j2].id
               /\ images[j1].isLoading
               /\ ~images[j2].isLoading

(* -------------------------------- C20 --------------------------------- *)

\* No two placeholders created so far were given the same id.
UniqueIds ==
    \A x, y \in Created :
        batches[x[1]].newImages[x[2]].id = batches[y[1]].newImages[y[2]].id
            => x = y

\* C20: as long as no id has been given twice, the items of one batch that
\* are in the store are all loading or all terminal: the batch is reconciled
\* in one store update, after all its pipelines have resolved.
C20_BatchTurnsTerminalAtOnce ==
    UniqueIds =>
        \A b \in 1..Len(batches) : \A k1, k2 \in BatchKeys(b) :
            (InStore(images, k1) /\ InStore(images, k2))
                => ItemOf(images, k1).isLoading = ItemOf(images, k2).isLoading

\* A batch of two files with different ids has been reconciled, and both
\* items are in the store, terminal.
C20_Case ==
    /\ UniqueIds
    /\ \E b \in 1..Len(batches) :
           /\ batches[b].pc = "done"
           /\ \E k1, k2 \in BatchKeys(b) :
                  /\ k1 # k2
                  /\ InStore(images, k1) /\ InStore(images, k2)
                  /\ ~ItemOf(images, k1).isLoading
                  /\ ~ItemOf(images, k2).isLoading

====
